---- MODULE Spec2Model ----
(***************************************************************************)
(* The in-memory payment ledgers of the Lumina Shirts backend:             *)
(*   MockPaymentService  (app/services/mock_payment_service.py)            *)
(*   MockBakongService   (app/services/bakong_mock.py)                     *)
(*   BakongService       (app/services/bakong_service.py)                  *)
(* Each service object owns one dictionary.  A payment router is bound to  *)
(* exactly one of the services, so a behaviour exercises one of them; the  *)
(* variable impl records which.                                            *)
(* The database tables the order, tracking and cart routers work on, and   *)
(* the handlers of those routers and of app/routers/payment.py, follow the *)
(* ledgers.                                                                *)
(***************************************************************************)
EXTENDS Integers, Sequences, FiniteSets, TLC

VARIABLES
    impl,          \* the service the payment router is bound to
    now,           \* the wall clock, in whole seconds
    payments,      \* MockPaymentService.payments: order_id -> dict
    creates,       \* the number of create calls made so far
    transactions,  \* MockBakongService.transactions: md5 -> dict
    bk_transactions, \* BakongService.transactions: order_id -> dict
    bakong_paid,   \* md5s the Bakong network reports as settled
    resp,          \* the last call: operation, arguments, returned value
    seen_paid,     \* identifiers some status check has returned PAID for
    products,      \* table products: id -> row (stock, is_active)
    cart_items,    \* table cart_items: id -> row (user_id, product_id, quantity)
    orders,        \* table orders: id -> row (user_id, status, tracking_number)
    http           \* the last HTTP request of those routers and its response

\* the tables and the HTTP exchange
api_vars == <<products, cart_items, orders, http>>

\* the payment ledgers
ledger_vars == <<impl, now, payments, creates, transactions, bk_transactions,
                 bakong_paid, resp, seen_paid>>

vars == <<impl, now, payments, creates, transactions, bk_transactions,
          bakong_paid, resp, seen_paid, products, cart_items, orders, http>>

----------------------------------------------------------------------------
(* Bounds of the model *)

MaxTime == 31
MaxCreates == 2
MaxSettled == 1
MaxOrders == 1
MaxCartQuantity == 4

(* Inputs *)

OrderIds == {"o1", "o2"}
\* (amount, currency) of a create request: two valid requests, and one
\* request for each way the amount or the currency can be invalid
PaymentInputs == {<<10, "USD">>, <<10, "KHR">>, <<0, "USD">>, <<-5, "USD">>,
                  <<10, "EUR">>}
TickSteps == {30, 31}
DefaultPhone == "85512345678"
BankAccount == "ret_naphut@bkrt"
MerchantName == "Lumina Shirts"
BillNumbers == {"o1"}
RandomStrs == {100000, 999999}
\* the KHQR call that raises during an operation, if any
KhqrRaises == {"none", "create_qr", "generate_deeplink", "check_payment", "get_payment",
               "qr_image"}
\* the stock of the one product on sale
Stocks == {2}
\* the products table the shop runs with
Catalogues == {[id \in {1} |-> [stock |-> s, is_active |-> TRUE]] : s \in Stocks}
\* an md5 no create_qr call can yield
UnknownMd5 == <<"md5", "", 0, "", 0, 0>>

\* Python's None, where a call returns it (dict.get of a missing key).
None == "None"

----------------------------------------------------------------------------
(* Python dictionaries *)

\* d[k] = v
Put(d, k, v) == [x \in (DOMAIN d) \cup {k} |-> IF x = k THEN v ELSE d[x]]

\* d.get(k)
Get(d, k) == IF k \in DOMAIN d THEN d[k] ELSE None

EmptyDict == [x \in {} |-> None]

----------------------------------------------------------------------------
(* The record of the last call *)

\* 2 when the call before this status check was a status check of the same
\* key, else 1
CheckSeq(key) == IF resp.op = "check" /\ resp.key = key THEN 2 ELSE 1

----------------------------------------------------------------------------
(* MockPaymentService *)

\* str(uuid.uuid4()): a value no earlier call has returned
Uuid4 == <<"uuid", creates + 1>>

\* a create_payment_qr that keeps the payment an order_id already has
MP_NewPaymentKeepFirst(payment_id, order_id, amount, phone_number) ==
    IF order_id \in DOMAIN payments
      THEN payments[order_id]
      ELSE [payment_id |-> payment_id, order_id |-> order_id, amount |-> amount,
            currency |-> "USD", phone_number |-> phone_number,
            status |-> "UNPAID", created_at |-> now,
            qr_data |-> <<"mock_qr_data_", payment_id>>,
            md5 |-> <<"mock_md5_", payment_id>>,
            deeplink |-> <<"mock_deeplink_", payment_id>>,
            bill_number |-> <<"bill_", order_id>>]

\* the dict create_payment_qr stores under payments[order_id]
MP_NewPayment(payment_id, order_id, amount, phone_number) ==
    [payment_id   |-> payment_id,
     order_id     |-> order_id,
     amount       |-> amount,
     currency     |-> "USD",
     phone_number |-> phone_number,
     status       |-> "UNPAID",
     created_at   |-> now,
     qr_data      |-> <<"mock_qr_data_", payment_id>>,
     md5          |-> <<"mock_md5_", payment_id>>,
     deeplink     |-> <<"mock_deeplink_", payment_id>>,
     bill_number  |-> <<"bill_", order_id>>]

\* POST /create-qr of routers/mock_payment.py: the request's order_id, amount
\* and currency; the handler passes order_id, amount and the user's phone to
\* MockPaymentService.create_payment_qr and returns its result
MP_create_payment_qr(order_id, amount, currency, phone_number) ==
    /\ impl = "MockPaymentService"
    /\ creates < MaxCreates
    /\ LET payment_id == Uuid4
       IN  /\ payments' = Put(payments, order_id,
                              MP_NewPayment(payment_id, order_id, amount, phone_number))
           /\ resp' = [op |-> "create", key |-> order_id, amount |-> amount,
                       currency |-> currency,
                       ret |-> [success     |-> TRUE,
                                qr_data     |-> <<"mock_qr_data_", payment_id>>,
                                md5         |-> <<"mock_md5_", payment_id>>,
                                deeplink    |-> <<"mock_deeplink_", payment_id>>,
                                bill_number |-> <<"bill_", order_id>>,
                                order_id    |-> order_id]]
    /\ creates' = creates + 1
    /\ UNCHANGED <<api_vars, impl, now, transactions, bk_transactions, bakong_paid, seen_paid>>

\* the record check_payment_status leaves in payments[order_id]:
\* random.random() > 0.7 is the flag flip
MP_Checked(payment, flip) ==
    IF flip THEN Put(Put(payment, "status", "PAID"), "paid_at", now)
            ELSE payment

\* a check_payment_status that answers for an unknown order_id as for a
\* stored, unpaid one
MP_NotFoundAsUnpaid(order_id) == [success |-> TRUE, status |-> "UNPAID"]

\* what check_payment_status returns for an order_id it has no payment for
MP_NotFound(order_id) == [success |-> FALSE, error |-> "Payment not found"]

\* MockPaymentService.check_payment_status(order_id)
MP_check_payment_status(order_id, flip) ==
    /\ impl = "MockPaymentService"
    /\ IF order_id \in DOMAIN payments
         THEN LET payment == MP_Checked(payments[order_id], flip)
              IN  /\ payments' = [payments EXCEPT ![order_id] = payment]
                  /\ resp' = [op |-> "check", key |-> order_id, seq |-> CheckSeq(order_id),
                              ret |-> [success |-> TRUE,
                                       status  |-> payment["status"],
                                       payment_info |->
                                          [payment_id |-> payment["payment_id"],
                                           amount     |-> payment["amount"],
                                           paid_at    |-> Get(payment, "paid_at")]]]
                  /\ seen_paid' = IF payment["status"] = "PAID"
                                    THEN seen_paid \cup {order_id} ELSE seen_paid
         ELSE /\ resp' = [op |-> "check", key |-> order_id, seq |-> CheckSeq(order_id),
                          ret |-> MP_NotFound(order_id)]
              /\ UNCHANGED <<payments, seen_paid>>
    /\ UNCHANGED <<api_vars, impl, now, creates, transactions, bk_transactions, bakong_paid>>

\* MockPaymentService.simulate_payment(order_id), as the router calls it:
\* the service returns nothing and the router answers success
MP_simulate_payment(order_id) ==
    /\ impl = "MockPaymentService"
    /\ payments' = IF order_id \in DOMAIN payments
                     THEN [payments EXCEPT ![order_id] =
                             Put(Put(@, "status", "PAID"), "paid_at", now)]
                     ELSE payments
    /\ resp' = [op |-> "force_paid", key |-> order_id,
                ret |-> [success |-> TRUE,
                         message |-> "Payment simulated successfully"]]
    /\ UNCHANGED <<api_vars, impl, now, creates, transactions, bk_transactions,
                   bakong_paid, seen_paid>>

\* GET /qr-image/{order_id} of routers/mock_payment.py, which returns
\* {"url": MockPaymentService.get_qr_image(order_id)}
MP_get_qr_image(order_id) ==
    /\ impl = "MockPaymentService"
    /\ resp' = [op |-> "display", key |-> order_id,
                ret |-> [url |-> <<"https://api.qrserver.com/v1/create-qr-code/",
                                   "mock_payment_", order_id>>]]
    /\ UNCHANGED <<api_vars, impl, now, payments, creates, transactions, bk_transactions,
                   bakong_paid, seen_paid>>

----------------------------------------------------------------------------
(* MockBakongService *)

\* hashlib.md5(f"{bank_account}{amount}{currency}{timestamp}{random_str}"):
\* the digest is modelled by the hashed fields themselves (no two different
\* inputs collide), so two digests are equal exactly when the inputs are
Md5(bank_account, amount, currency, timestamp, random_str) ==
    <<"md5", bank_account, amount, currency, timestamp, random_str>>

\* the mock KHQR payload string, by its variable parts
MB_QrString(bank_account, merchant_name, amount, currency, timestamp, md5) ==
    <<"000201", bank_account, currency, merchant_name, timestamp, amount * 100,
      IF currency = "USD" THEN <<"5303", currency>> ELSE <<"5303", "KHR">>, md5>>

\* the dict create_qr stores under transactions[md5]
MB_NewTransaction(bank_account, merchant_name, amount, currency, bill_number, md5) ==
    [qr_string     |-> MB_QrString(bank_account, merchant_name, amount, currency, now, md5),
     amount        |-> amount,
     currency      |-> currency,
     bank_account  |-> bank_account,
     merchant_name |-> merchant_name,
     bill_number   |-> bill_number,
     created_at    |-> now,
     status        |-> "pending"]

\* MockBakongService.create_qr(bank_account, merchant_name, amount, currency,
\* bill_number); random_str is the value random.randint(100000, 999999) yields
MB_create_qr(bank_account, merchant_name, amount, currency, bill_number, random_str) ==
    /\ impl = "MockBakongService"
    /\ LET md5 == Md5(bank_account, amount, currency, now, random_str)
           tx  == MB_NewTransaction(bank_account, merchant_name, amount,
                                    currency, bill_number, md5)
       IN  /\ creates < MaxCreates
           /\ creates' = creates + 1
           /\ transactions' = Put(transactions, md5, tx)
           /\ resp' = [op |-> "create", key |-> md5, amount |-> amount,
                       currency |-> currency,
                       ret |-> [success   |-> TRUE,
                                qr_string |-> tx.qr_string,
                                qr_image  |-> <<"data:image/png;base64,", bank_account,
                                                merchant_name, amount, currency,
                                                bill_number, now>>,
                                md5       |-> md5,
                                amount    |-> amount,
                                currency  |-> currency]]
    /\ UNCHANGED <<api_vars, impl, now, payments, bk_transactions, bakong_paid, seen_paid>>

\* a check_payment that marks the transaction paid from 30 s on
MB_StatusAfterCheckAt30(transaction, hit) ==
    IF now - transaction.created_at >= 30 /\ hit THEN "paid" ELSE transaction.status

\* a check_payment that returns PAID and forgets to store it
MB_StatusNotStored(transaction, hit) == transaction.status

\* the status check_payment leaves in the stored transaction:
\* hit is random.random() < 0.8
MB_StatusAfterCheck(transaction, hit) ==
    IF now - transaction.created_at > 30 /\ hit THEN "paid" ELSE transaction.status

\* a check_payment that returns the status as it is stored, without upper()
UpperSkipped(status) == status

\* str.upper() on the status strings the service stores
Upper(status) ==
    CASE status = "pending" -> "PENDING"
      [] status = "paid"    -> "PAID"
      [] OTHER              -> status

\* a check_payment without the 30 s threshold
MB_CheckResultNoThreshold(transaction, hit) ==
    IF hit THEN "PAID" ELSE Upper(transaction.status)

\* the string check_payment returns
MB_CheckResult(transaction, hit) ==
    IF now - transaction.created_at > 30 /\ hit
      THEN "PAID"
      ELSE Upper(transaction.status)

\* MockBakongService.check_payment(md5)
MB_check_payment(md5, hit) ==
    /\ impl = "MockBakongService"
    /\ IF md5 \notin DOMAIN transactions
         THEN /\ resp' = [op |-> "check", key |-> md5, seq |-> CheckSeq(md5),
                          draw |-> hit, ret |-> "NOT_FOUND"]
              /\ UNCHANGED <<transactions, seen_paid>>
         ELSE LET transaction == transactions[md5]
                  result == MB_CheckResult(transaction, hit)
              IN  /\ transactions' = [transactions EXCEPT ![md5].status =
                                         MB_StatusAfterCheck(transaction, hit)]
                  /\ resp' = [op |-> "check", key |-> md5, seq |-> CheckSeq(md5),
                              draw |-> hit, ret |-> result]
                  /\ seen_paid' = IF result = "PAID"
                                    THEN seen_paid \cup {md5} ELSE seen_paid
    /\ UNCHANGED <<api_vars, impl, now, payments, creates, bk_transactions, bakong_paid>>

\* MockBakongService.get_payment_info(md5): it calls check_payment
MB_get_payment_info(md5, hit) ==
    /\ impl = "MockBakongService"
    /\ IF md5 \notin DOMAIN transactions
         THEN /\ resp' = [op |-> "get_info", key |-> md5,
                          ret |-> [success |-> FALSE, error |-> "Transaction not found"]]
              /\ UNCHANGED transactions
         ELSE LET transaction == transactions[md5]
                  status == MB_CheckResult(transaction, hit)
              IN  /\ transactions' = [transactions EXCEPT ![md5].status =
                                         MB_StatusAfterCheck(transaction, hit)]
                  /\ resp' = [op |-> "get_info", key |-> md5,
                              ret |-> IF status = "PAID"
                                THEN [success       |-> TRUE,
                                      hash          |-> md5,
                                      fromAccountId |-> "mock_user@mock_bank",
                                      toAccountId   |-> transaction.bank_account,
                                      currency      |-> transaction.currency,
                                      amount        |-> transaction.amount,
                                      description   |-> transaction.bill_number,
                                      createdDateMs |-> transaction.created_at * 1000,
                                      acknowledgedDateMs |->
                                          (transaction.created_at + 30) * 1000,
                                      trackingStatus |-> "completed"]
                                ELSE [success |-> TRUE, hash |-> md5, status |-> status]]
    /\ UNCHANGED <<api_vars, impl, now, payments, creates, bk_transactions, bakong_paid,
                   seen_paid>>

----------------------------------------------------------------------------
(* BakongService.  KHQR is the third-party bakong_khqr client: its calls     *)
(* reach the Bakong network, so each may raise; which call raises, if any,  *)
(* is the input khqr_raises of the actions below.                           *)

\* f"LUM{order_id}{datetime.now().strftime('%Y%m%d%H%M%S')}"
BK_BillNumber(order_id) == <<"LUM", order_id, now>>

\* khqr.create_qr(...): the KHQR payload, by the fields it encodes
BK_QrData(merchant_name, amount, currency, bill_number) ==
    <<"khqr", BankAccount, merchant_name, amount, currency, bill_number>>

\* khqr.generate_md5(qr_data)
BK_Md5(qr_data) == <<"md5", qr_data>>

\* the dict create_payment_qr stores under transactions[order_id]
BK_NewTransaction(md5, qr_data, amount, currency) ==
    [md5        |-> md5,
     qr_data    |-> qr_data,
     amount     |-> amount,
     currency   |-> currency,
     status     |-> "PENDING",
     created_at |-> now]

\* the ledger create_payment_qr leaves behind: the store precedes
\* generate_deeplink, so only a failure of create_qr leaves it untouched
BK_StoredOnCreate(order_id, amount, currency, khqr_raises) ==
    IF khqr_raises = "create_qr"
      THEN bk_transactions
      ELSE LET qr_data == BK_QrData(MerchantName, amount, currency,
                                    BK_BillNumber(order_id))
           IN  Put(bk_transactions, order_id,
                   BK_NewTransaction(BK_Md5(qr_data), qr_data, amount, currency))

\* BakongService.create_payment_qr(order_id, amount, currency)
BK_create_payment_qr(order_id, amount, currency, khqr_raises) ==
    /\ impl = "BakongService"
    /\ LET bill_number == BK_BillNumber(order_id)
           qr_data == BK_QrData(MerchantName, amount, currency, bill_number)
           md5 == BK_Md5(qr_data)
       IN  /\ creates < MaxCreates
           /\ creates' = creates + 1
           /\ bk_transactions' = BK_StoredOnCreate(order_id, amount, currency, khqr_raises)
           /\ resp' = [op |-> "create", key |-> order_id, amount |-> amount,
                       currency |-> currency,
                       ret |-> IF khqr_raises \in {"create_qr", "generate_deeplink"}
                                 THEN [success |-> FALSE, error |-> khqr_raises]
                                 ELSE [success     |-> TRUE,
                                       qr_data     |-> qr_data,
                                       md5         |-> md5,
                                       deeplink    |-> <<"deeplink", qr_data>>,
                                       bill_number |-> bill_number,
                                       order_id    |-> order_id]]
    /\ UNCHANGED <<api_vars, impl, now, payments, transactions, bakong_paid, seen_paid>>

\* khqr.check_payment(md5): what the Bakong network answers
BK_NetworkStatus(md5) == IF md5 \in bakong_paid THEN "PAID" ELSE "UNPAID"

\* BakongService.check_payment_status(order_id)
BK_check_payment_status(order_id, khqr_raises) ==
    /\ impl = "BakongService"
    /\ IF order_id \notin DOMAIN bk_transactions
         THEN /\ resp' = [op |-> "check", key |-> order_id, seq |-> CheckSeq(order_id),
                          ret |-> [success |-> FALSE, error |-> "Transaction not found"]]
              /\ UNCHANGED <<bk_transactions, seen_paid>>
         ELSE LET md5 == bk_transactions[order_id].md5
                  status == BK_NetworkStatus(md5)
                  payment_info == <<"payment_info", md5>>
              IN  IF khqr_raises = "check_payment"
                     \/ (status = "PAID" /\ khqr_raises = "get_payment")
                    THEN /\ resp' = [op |-> "check", key |-> order_id,
                                     seq |-> CheckSeq(order_id),
                                     ret |-> [success |-> FALSE, error |-> khqr_raises]]
                         /\ UNCHANGED <<bk_transactions, seen_paid>>
                    ELSE IF status = "PAID"
                      THEN /\ bk_transactions' =
                                [bk_transactions EXCEPT ![order_id] =
                                    Put(Put(@, "status", "PAID"),
                                        "payment_info", payment_info)]
                           /\ resp' = [op |-> "check", key |-> order_id,
                                       seq |-> CheckSeq(order_id),
                                       ret |-> [success |-> TRUE, status |-> "PAID",
                                                payment_info |-> payment_info]]
                           /\ seen_paid' = seen_paid \cup {order_id}
                      ELSE /\ resp' = [op |-> "check", key |-> order_id,
                                       seq |-> CheckSeq(order_id),
                                       ret |-> [success |-> TRUE, status |-> "UNPAID"]]
                           /\ UNCHANGED <<bk_transactions, seen_paid>>
    /\ UNCHANGED <<api_vars, impl, now, payments, creates, transactions, bakong_paid>>

\* BakongService.generate_qr_image(order_id)
BK_generate_qr_image(order_id, khqr_raises) ==
    /\ impl = "BakongService"
    /\ resp' = [op |-> "display", key |-> order_id,
                ret |-> IF order_id \notin DOMAIN bk_transactions
                          THEN [success |-> FALSE, error |-> "Transaction not found"]
                        ELSE IF khqr_raises = "qr_image"
                          THEN [success |-> FALSE, error |-> khqr_raises]
                        ELSE [success    |-> TRUE,
                              image_path |-> <<"static/qr_codes/", order_id, ".png">>,
                              url        |-> <<"/static/qr_codes/", order_id, ".png">>]]
    /\ UNCHANGED <<api_vars, impl, now, payments, creates, transactions, bk_transactions,
                   bakong_paid, seen_paid>>

\* the customer scans the stored QR and the Bakong network settles it;
\* a settled payment stays settled
BK_CustomerPays(order_id) ==
    /\ impl = "BakongService"
    /\ order_id \in DOMAIN bk_transactions
    /\ bk_transactions[order_id].md5 \notin bakong_paid
    /\ Cardinality(bakong_paid) < MaxSettled
    /\ bakong_paid' = bakong_paid \cup {bk_transactions[order_id].md5}
    /\ UNCHANGED <<api_vars, impl, now, payments, creates, transactions, bk_transactions,
                   resp, seen_paid>>

----------------------------------------------------------------------------
\* datetime.now() / time.time() advance between calls
Tick(d) ==
    /\ now + d <= MaxTime
    /\ now' = now + d
    /\ UNCHANGED <<api_vars, impl, payments, creates, transactions, bk_transactions,
                   bakong_paid, resp, seen_paid>>

Impls == {"MockPaymentService", "MockBakongService", "BakongService"}

Init ==
    /\ impl \in Impls
    /\ now = 0
    /\ payments = EmptyDict
    /\ creates = 0
    /\ transactions = EmptyDict
    /\ bk_transactions = EmptyDict
    /\ bakong_paid = {}
    /\ resp = [op |-> "none"]
    /\ seen_paid = {}
    /\ products \in Catalogues
    /\ cart_items = EmptyDict
    /\ orders = EmptyDict
    /\ http = [op |-> "none"]

Next ==
    \/ \E d \in TickSteps : Tick(d)
    \/ \E o \in OrderIds, in \in PaymentInputs :
          MP_create_payment_qr(o, in[1], in[2], DefaultPhone)
    \/ \E o \in OrderIds, flip \in BOOLEAN : MP_check_payment_status(o, flip)
    \/ \E o \in OrderIds : MP_simulate_payment(o)
    \/ \E o \in OrderIds : MP_get_qr_image(o)
    \/ \E in \in PaymentInputs, b \in BillNumbers, r \in RandomStrs :
          MB_create_qr(BankAccount, MerchantName, in[1], in[2], b, r)
    \/ \E md5 \in DOMAIN transactions \cup {UnknownMd5}, hit \in BOOLEAN :
          MB_check_payment(md5, hit)
    \/ \E md5 \in DOMAIN transactions \cup {UnknownMd5}, hit \in BOOLEAN :
          MB_get_payment_info(md5, hit)
    \/ \E o \in OrderIds, in \in PaymentInputs, f \in KhqrRaises :
          BK_create_payment_qr(o, in[1], in[2], f)
    \/ \E o \in OrderIds, f \in KhqrRaises : BK_check_payment_status(o, f)
    \/ \E o \in OrderIds, f \in KhqrRaises : BK_generate_qr_image(o, f)
    \/ \E o \in OrderIds : BK_CustomerPays(o)

Spec == Init /\ [][Next]_vars

\* random.random() > 0.7 succeeds with probability 0.3 on every call, so a
\* client that keeps polling an order_id is not refused the flip forever
SpecProbabilistic ==
    Spec /\ \A o \in OrderIds : WF_vars(MP_check_payment_status(o, TRUE))

----------------------------------------------------------------------------
(* The order, tracking and cart routers.  Each handler is one action; a     *)
(* raised HTTPException is the response code and detail in http.            *)

\* users by name; get_current_admin_user passes the one with is_admin
Users == {"alice", "bob", "admin"}
is_admin(current_user) == current_user = "admin"

\* valid_statuses of update_order_status and update_tracking_status
valid_statuses == {"pending", "processing", "shipped", "delivered", "cancelled"}
\* the status of a status_update body, None when the key is missing
StatusUpdates == valid_statuses \cup {"refunded", None}

\* status_map of carrier_webhook
status_map ==
    [s \in {"delivered", "out_for_delivery", "in_transit", "processing", "exception"} |->
        CASE s = "delivered"        -> "delivered"
          [] s = "out_for_delivery" -> "shipped"
          [] s = "in_transit"       -> "shipped"
          [] s = "processing"       -> "processing"
          [] s = "exception"        -> "processing"]

\* prefix_map of generate_tracking
prefix_map ==
    [c \in {"fedex", "ups", "usps", "dhl", "lumina"} |->
        CASE c = "fedex"  -> "FED"
          [] c = "ups"    -> "UPS"
          [] c = "usps"   -> "USP"
          [] c = "dhl"    -> "DHL"
          [] c = "lumina" -> "LUM"]

\* carrier_code of a generate request: absent, a known code, an unknown one
CarrierCodes == {None, "fedex", "pigeon"}
\* what random.choice draws in generate_tracking_number
RandomPrefixes == {"LUM", "FED"}
\* what ''.join(random.choices(string.digits, k=12)) draws
RandomDigits == {"000000000001"}
\* f"{prefix}{numbers}", for the digits of RandomDigits
TrackingNumber(prefix, numbers) ==
    CASE prefix = "LUM" /\ numbers = "000000000001" -> "LUM000000000001"
      [] prefix = "FED" /\ numbers = "000000000001" -> "FED000000000001"
      [] prefix = "UPS" /\ numbers = "000000000001" -> "UPS000000000001"
      [] prefix = "USP" /\ numbers = "000000000001" -> "USP000000000001"
      [] prefix = "DHL" /\ numbers = "000000000001" -> "DHL000000000001"
\* the tracking numbers a carrier may report
TrackingNumbers == {TrackingNumber(p, n) : p \in RandomPrefixes, n \in RandomDigits}
\* the status a carrier reports, None when the key is missing
CarrierStatuses == {None, "delivered", "in_transit", "processing", "exception", "lost"}

\* the next value of an autoincrement primary key (no row is deleted)
NextId(table) == Cardinality(DOMAIN table) + 1

\* crud.get_cart_items(db, user_id), as the ids of the rows
get_cart_items(user_id) == {i \in DOMAIN cart_items : cart_items[i].user_id = user_id}

\* models.Order(...) as crud.create_order adds it: status defaults to
\* "pending", tracking_number to NULL
NewOrder(user_id) == [user_id |-> user_id, status |-> "pending", tracking_number |-> None]

\* POST /api/orders/
create_order(current_user) ==
    LET items == get_cart_items(current_user)
    IN  /\ IF items = {}
             THEN /\ http' = [op |-> "create_order", code |-> 400,
                              detail |-> "Cart is empty"]
                  /\ UNCHANGED orders
           ELSE IF \E i \in items :
                      \/ cart_items[i].product_id \notin DOMAIN products
                      \/ ~products[cart_items[i].product_id].is_active
             THEN /\ http' = [op |-> "create_order", code |-> 400,
                              detail |-> "Product is no longer available"]
                  /\ UNCHANGED orders
           ELSE IF \E i \in items :
                      products[cart_items[i].product_id].stock < cart_items[i].quantity
             THEN /\ http' = [op |-> "create_order", code |-> 400,
                              detail |-> "Only N of product available"]
                  /\ UNCHANGED orders
           ELSE /\ Cardinality(DOMAIN orders) < MaxOrders
                /\ orders' = Put(orders, NextId(orders), NewOrder(current_user))
                /\ http' = [op |-> "create_order", code |-> 201,
                            detail |-> NextId(orders)]
        /\ UNCHANGED <<ledger_vars, products, cart_items>>

\* POST /api/orders/{order_id}/cancel
cancel_order(order_id, current_user) ==
    /\ IF order_id \notin DOMAIN orders
         THEN /\ http' = [op |-> "cancel_order", order_id |-> order_id, code |-> 404,
                          detail |-> "Order not found"]
              /\ UNCHANGED orders
       ELSE IF ~is_admin(current_user) /\ orders[order_id].user_id /= current_user
         THEN /\ http' = [op |-> "cancel_order", order_id |-> order_id, code |-> 403,
                          detail |-> "You don't have permission to access this order"]
              /\ UNCHANGED orders
       ELSE IF orders[order_id].status \notin {"pending", "processing"}
         THEN /\ http' = [op |-> "cancel_order", order_id |-> order_id, code |-> 400,
                          detail |-> "Order cannot be cancelled at this stage"]
              /\ UNCHANGED orders
       ELSE /\ orders' = [orders EXCEPT ![order_id].status = "cancelled"]
            /\ http' = [op |-> "cancel_order", order_id |-> order_id, code |-> 200,
                        detail |-> "cancelled"]
    /\ UNCHANGED <<ledger_vars, products, cart_items>>

\* the body shared by PUT /api/orders/{order_id}/status and
\* PUT /api/tracking/order/{order_id}/status
UpdateStatus(op, order_id, new_status, current_user) ==
    /\ IF ~is_admin(current_user)
         THEN /\ http' = [op |-> op, order_id |-> order_id, code |-> 403,
                          detail |-> "Not enough permissions"]
              /\ UNCHANGED orders
       ELSE IF order_id \notin DOMAIN orders
         THEN /\ http' = [op |-> op, order_id |-> order_id, code |-> 404,
                          detail |-> "Order not found"]
              /\ UNCHANGED orders
       ELSE IF new_status \notin valid_statuses
         THEN /\ http' = [op |-> op, order_id |-> order_id, code |-> 400,
                          detail |-> "Invalid status"]
              /\ UNCHANGED orders
       ELSE /\ orders' = [orders EXCEPT ![order_id].status = new_status]
            /\ http' = [op |-> op, order_id |-> order_id, code |-> 200,
                        detail |-> new_status]
    /\ UNCHANGED <<ledger_vars, products, cart_items>>

\* PUT /api/orders/{order_id}/status
update_order_status(order_id, new_status, current_user) ==
    UpdateStatus("update_order_status", order_id, new_status, current_user)

\* PUT /api/tracking/order/{order_id}/status
update_tracking_status(order_id, new_status, current_user) ==
    UpdateStatus("update_tracking_status", order_id, new_status, current_user)

\* the tracking number generate_tracking makes up
NewTrackingNumber(carrier_code, random_prefix, numbers) ==
    IF carrier_code /= None
      THEN TrackingNumber(IF carrier_code \in DOMAIN prefix_map
                            THEN prefix_map[carrier_code] ELSE "LUM", numbers)
      ELSE TrackingNumber(random_prefix, numbers)

\* a generate_tracking without the test for an existing tracking number
TrackingNeverExists(order) == FALSE

\* if order.tracking_number: (NULL and the empty string are falsy)
TrackingExists(order) == order.tracking_number \notin {None, ""}

\* POST /api/tracking/order/{order_id}/generate
generate_tracking(order_id, carrier_code, random_prefix, numbers, current_user) ==
    /\ IF ~is_admin(current_user)
         THEN /\ http' = [op |-> "generate_tracking", order_id |-> order_id,
                          current_user |-> current_user,
                          code |-> 403, detail |-> "Not enough permissions"]
              /\ UNCHANGED orders
       ELSE IF order_id \notin DOMAIN orders
         THEN /\ http' = [op |-> "generate_tracking", order_id |-> order_id,
                          current_user |-> current_user,
                          code |-> 404, detail |-> "Order not found"]
              /\ UNCHANGED orders
       ELSE IF TrackingExists(orders[order_id])
         THEN /\ http' = [op |-> "generate_tracking", order_id |-> order_id,
                          current_user |-> current_user,
                          code |-> 400,
                          detail |-> "Tracking number already exists for this order"]
              /\ UNCHANGED orders
       ELSE LET tracking_number == NewTrackingNumber(carrier_code, random_prefix, numbers)
            IN  /\ orders' = [orders EXCEPT ![order_id].tracking_number = tracking_number,
                                            ![order_id].status = "shipped"]
                /\ http' = [op |-> "generate_tracking", order_id |-> order_id,
                            current_user |-> current_user,
                            code |-> 200, detail |-> tracking_number]
    /\ UNCHANGED <<ledger_vars, products, cart_items>>

\* POST /api/tracking/webhook/{carrier}.  The handler's local name status
\* (data.get("status")) hides fastapi's status module in the whole body, so
\* status.HTTP_400_BAD_REQUEST is an attribute of None or of a str: an
\* AttributeError, which the server answers with 500.
carrier_webhook(tracking_number, status) ==
    /\ IF tracking_number \in {None, ""} \/ status \in {None, ""}
         THEN /\ http' = [op |-> "carrier_webhook",
                          data |-> [tracking_number |-> tracking_number,
                                    status |-> status],
                          code |-> 500, detail |-> "Internal Server Error"]
              /\ UNCHANGED orders
       ELSE LET found == {o \in DOMAIN orders :
                             orders[o].tracking_number = tracking_number}
            IN  IF found = {}
                  THEN /\ http' = [op |-> "carrier_webhook",
                                   data |-> [tracking_number |-> tracking_number,
                                             status |-> status],
                                   code |-> 200,
                                   detail |-> "Order not found, webhook received"]
                       /\ UNCHANGED orders
                  ELSE /\ \E order \in found :
                             orders' = IF status \in DOMAIN status_map
                                         THEN [orders EXCEPT ![order].status =
                                                  status_map[status]]
                                         ELSE orders
                       /\ http' = [op |-> "carrier_webhook",
                                   data |-> [tracking_number |-> tracking_number,
                                             status |-> status],
                                   code |-> 200,
                                   detail |-> "Webhook processed successfully"]
    /\ UNCHANGED <<ledger_vars, products, cart_items>>

\* the user who shops
Customers == {"alice"}
\* product_id of a cart request: the product on sale and an id without a row
ProductIds == {1, 2}
\* quantity of a cart request
Quantities == {0, 1, 2, 3}

\* schemas.CartItemBase / CartItemUpdate: quantity: int = Field(ge=1, le=10)
QuantityField(quantity) == quantity >= 1 /\ quantity <= 10

\* crud.get_cart_item(db, user_id, product_id), as the ids of the rows
get_cart_item(user_id, product_id) ==
    {i \in DOMAIN cart_items : /\ cart_items[i].user_id = user_id
                               /\ cart_items[i].product_id = product_id}

\* crud.add_to_cart(db, user_id, cart_item): the table it leaves
crud_add_to_cart(user_id, product_id, quantity) ==
    LET existing == get_cart_item(user_id, product_id)
    IN  IF existing /= {}
          THEN LET i == CHOOSE i \in existing : TRUE
               IN  [cart_items EXCEPT ![i].quantity = @ + quantity]
          ELSE Put(cart_items, NextId(cart_items),
                   [user_id |-> user_id, product_id |-> product_id,
                    quantity |-> quantity])

\* POST /api/cart/
add_to_cart(product_id, quantity, current_user) ==
    /\ IF ~QuantityField(quantity)
         THEN /\ http' = [op |-> "add_to_cart", code |-> 422,
                          detail |-> "quantity"]
              /\ UNCHANGED cart_items
       ELSE IF product_id \notin DOMAIN products \/ ~products[product_id].is_active
         THEN /\ http' = [op |-> "add_to_cart", code |-> 404,
                          detail |-> "Product not found"]
              /\ UNCHANGED cart_items
       ELSE IF products[product_id].stock < quantity
         THEN /\ http' = [op |-> "add_to_cart", code |-> 400,
                          detail |-> <<"Only", products[product_id].stock,
                                       "items available in stock">>]
              /\ UNCHANGED cart_items
       ELSE /\ cart_items' = crud_add_to_cart(current_user, product_id, quantity)
            /\ \A i \in DOMAIN cart_items' : cart_items'[i].quantity <= MaxCartQuantity
            /\ http' = [op |-> "add_to_cart", code |-> 201, detail |-> "item"]
    /\ UNCHANGED <<ledger_vars, products, orders>>

\* PUT /api/cart/{item_id}
update_cart_item(item_id, quantity, current_user) ==
    /\ IF ~QuantityField(quantity)
         THEN /\ http' = [op |-> "update_cart_item", code |-> 422,
                          detail |-> "quantity"]
              /\ UNCHANGED cart_items
       ELSE IF item_id \notin DOMAIN cart_items
         THEN /\ http' = [op |-> "update_cart_item", code |-> 404,
                          detail |-> "Cart item not found"]
              /\ UNCHANGED cart_items
       ELSE IF cart_items[item_id].user_id /= current_user
         THEN /\ http' = [op |-> "update_cart_item", code |-> 403,
                          detail |-> "You don't have permission to modify this cart item"]
              /\ UNCHANGED cart_items
       ELSE IF products[cart_items[item_id].product_id].stock < quantity
         THEN /\ http' = [op |-> "update_cart_item", code |-> 400,
                          detail |-> <<"Only", products[cart_items[item_id].product_id].stock,
                                       "items available in stock">>]
              /\ UNCHANGED cart_items
       ELSE /\ cart_items' = [cart_items EXCEPT ![item_id].quantity = quantity]
            /\ http' = [op |-> "update_cart_item", code |-> 200, detail |-> "item"]
    /\ UNCHANGED <<ledger_vars, products, orders>>

----------------------------------------------------------------------------
(* app/routers/payment.py.  Its handlers call generate_qr, check_payment    *)
(* and get_payment_info on the bakong_service object of                     *)
(* app/services/bakong_service.py, which has none of them: the call raises  *)
(* AttributeError.  The handlers are written for a service that returns a   *)
(* dict with a success flag, as BakongService of bakong_khqr_wrapper.py     *)
(* does; outcome ranges over both.                                          *)

ServiceOutcomes ==
    {[raises |-> "AttributeError"],
     [result |-> [success |-> TRUE]],
     [result |-> [success |-> FALSE, error |-> "bakong-khqr not available"]],
     [result |-> [status |-> "PENDING"]]}

\* except Exception as e: raise HTTPException(status_code=500, detail=str(e))
\* where e is the HTTPException(400) raised in the try block
Caught(code, detail) == [code |-> 500, detail |-> <<"str", code, detail>>]

\* the try/except body the three handlers share
PaymentHandler(op, outcome, default_detail) ==
    /\ http' =
         IF "raises" \in DOMAIN outcome
           THEN [op |-> op, outcome |-> outcome, code |-> 500,
                 detail |-> outcome.raises]
         ELSE IF ~(IF "success" \in DOMAIN outcome.result
                     THEN outcome.result.success ELSE FALSE)
           THEN LET e == Caught(400, IF "error" \in DOMAIN outcome.result
                                       THEN outcome.result.error
                                       ELSE default_detail)
                IN  [op |-> op, outcome |-> outcome, code |-> e.code,
                     detail |-> e.detail]
         ELSE [op |-> op, outcome |-> outcome, code |-> 200, detail |-> "result"]
    /\ UNCHANGED <<ledger_vars, products, cart_items, orders>>

\* POST /create-qr
PR_create_payment_qr(outcome) ==
    PaymentHandler("create-qr", outcome, "Failed to generate QR code")

\* POST /check-payment
PR_check_payment_status(outcome) ==
    PaymentHandler("check-payment", outcome, "Failed to check payment status")

\* POST /payment-info
PR_get_payment_info(outcome) ==
    PaymentHandler("payment-info", outcome, "Failed to get payment info")

----------------------------------------------------------------------------
\* main.py mounts the mock payment router
InitApi == Init /\ impl = "MockPaymentService"

NextApi ==
    \/ \E u \in Customers : create_order(u)
    \/ \E o \in DOMAIN orders \cup {NextId(orders)}, u \in Users : cancel_order(o, u)
    \/ \E o \in DOMAIN orders \cup {NextId(orders)}, s \in StatusUpdates, u \in Users :
          update_order_status(o, s, u)
    \/ \E o \in DOMAIN orders \cup {NextId(orders)}, s \in StatusUpdates, u \in Users :
          update_tracking_status(o, s, u)
    \/ \E o \in DOMAIN orders \cup {NextId(orders)}, c \in CarrierCodes,
          p \in RandomPrefixes, n \in RandomDigits, u \in Users :
          generate_tracking(o, c, p, n, u)
    \/ \E t \in TrackingNumbers \cup {None}, s \in CarrierStatuses : carrier_webhook(t, s)
    \/ \E p \in ProductIds, q \in Quantities, u \in Customers : add_to_cart(p, q, u)
    \/ \E i \in DOMAIN cart_items \cup {NextId(cart_items)}, q \in Quantities,
          u \in Users : update_cart_item(i, q, u)
    \/ \E r \in ServiceOutcomes : PR_create_payment_qr(r)
    \/ \E r \in ServiceOutcomes : PR_check_payment_status(r)
    \/ \E r \in ServiceOutcomes : PR_get_payment_info(r)

SpecApi == InitApi /\ [][NextApi]_vars

\* the shop without the admin's status updates: orders are placed, given a
\* tracking number, reported on by the carrier and cancelled
NextShipping ==
    \/ \E p \in ProductIds, q \in Quantities, u \in Customers : add_to_cart(p, q, u)
    \/ \E u \in Customers : create_order(u)
    \/ \E o \in DOMAIN orders \cup {NextId(orders)}, u \in Users : cancel_order(o, u)
    \/ \E o \in DOMAIN orders \cup {NextId(orders)}, c \in CarrierCodes,
          p \in RandomPrefixes, n \in RandomDigits, u \in Users :
          generate_tracking(o, c, p, n, u)
    \/ \E t \in TrackingNumbers \cup {None}, s \in CarrierStatuses : carrier_webhook(t, s)

SpecShipping == InitApi /\ [][NextShipping]_vars

----------------------------------------------------------------------------
(* The ledger contract's vocabulary, read off the three services *)

\* the dictionary of the service in use
Ledger ==
    CASE impl = "MockPaymentService" -> payments
      [] impl = "MockBakongService"  -> transactions
      [] impl = "BakongService"      -> bk_transactions

\* a stored record is PENDING (the services write UNPAID, pending, PENDING)
IsPending(rec) == rec.status \in {"UNPAID", "pending", "PENDING"}

\* a stored record is PAID (the services write PAID, paid)
IsPaid(rec) == rec.status \in {"PAID", "paid"}

\* the status a status check reported: PENDING, PAID, NOT_FOUND, or ERROR
\* when the call failed for another reason than an unknown identifier
CheckStatus(r) ==
    IF impl = "MockBakongService" THEN r.ret
    ELSE IF ~r.ret.success
      THEN (IF r.ret.error \in {"Payment not found", "Transaction not found"}
              THEN "NOT_FOUND" ELSE "ERROR")
    ELSE IF r.ret.status = "UNPAID" THEN "PENDING"
    ELSE r.ret.status

\* the step is a create call (every create call, and no other, counts one)
CreateStep == creates' = creates + 1

\* the step is a status check (a check that repeats the call before it with
\* the same outcome and no effect is a stuttering step)
CheckStep == resp'.op = "check" /\ (resp' /= resp \/ Ledger' /= Ledger)

\* the step is a force_paid call
ForceStep == resp'.op = "force_paid" /\ (resp' /= resp \/ Ledger' /= Ledger)

\* a create request the contract accepts
ValidInput(amount, currency) == amount > 0 /\ currency \in {"USD", "KHR"}

----------------------------------------------------------------------------
(* Claims *)

\* C1: once a status check of an identifier has returned PAID, every later
\* status check of that identifier returns PAID.
C1_ObservedStatusMonotonic ==
    (resp.op = "check" /\ resp.key \in seen_paid) => CheckStatus(resp) = "PAID"

\* C2: a stored record whose status is PAID keeps status PAID over every
\* operation.
C2_PaidIsTerminal ==
    [][\A id \in DOMAIN Ledger :
          IsPaid(Ledger[id]) => (id \in DOMAIN Ledger' /\ IsPaid(Ledger'[id]))]_vars

\* C3: a create call with a valid input that succeeds stores a PENDING record
\* under an identifier that was no key of the ledger before (keys are never
\* removed, so the keys before the call are all the keys there ever were).
C3_CreateIsFreshAndPending ==
    [][(CreateStep /\ ValidInput(resp'.amount, resp'.currency) /\ resp'.ret.success)
          => /\ resp'.key \notin DOMAIN Ledger
             /\ resp'.key \in DOMAIN Ledger'
             /\ IsPending(Ledger'[resp'.key])]_vars

\* C4: a create call with amount <= 0 fails with InvalidAmount.
C4_NonPositiveAmountRejected ==
    (resp.op = "create" /\ resp.amount <= 0)
        => (~resp.ret.success /\ resp.ret.error = "InvalidAmount")

\* C5: a create call with a currency other than USD and KHR fails with
\* UnsupportedCurrency.
C5_UnsupportedCurrencyRejected ==
    (resp.op = "create" /\ resp.currency \notin {"USD", "KHR"})
        => (~resp.ret.success /\ resp.ret.error = "UnsupportedCurrency")

\* C6: a create call that reports an error leaves the ledger as it was.
C6_FailedCreateLeavesLedger ==
    [][(CreateStep /\ ~resp'.ret.success) => Ledger' = Ledger]_vars

\* C7: a status check of an identifier the ledger does not hold returns
\* NOT_FOUND and leaves the ledger as it was.
C7_UnknownCheckIsNotFound ==
    [][(CheckStep /\ resp'.key \notin DOMAIN Ledger)
          => (CheckStatus(resp') = "NOT_FOUND" /\ Ledger' = Ledger)]_vars

\* C7 witness: records are stored, and the last call checked an identifier
\* that is not among them and got NOT_FOUND.
C7_Witness ==
    /\ resp.op = "check"
    /\ DOMAIN Ledger /= {}
    /\ resp.key \notin DOMAIN Ledger
    /\ CheckStatus(resp) = "NOT_FOUND"

\* C8 (as claimed): a status check of a record that is still PENDING, made
\* in the second the record was created (the first check after the create, or
\* a second one right after a first that returned PENDING, no force_paid
\* between), returns PENDING, under both mock policies.
C8_FreshChecksPending_Original ==
    [][(/\ impl \in {"MockPaymentService", "MockBakongService"}
        /\ CheckStep
        /\ resp'.key \in DOMAIN Ledger
        /\ IsPending(Ledger[resp'.key])
        /\ Ledger[resp'.key].created_at = now)
          => CheckStatus(resp') = "PENDING"]_vars

\* C8 (amended): the same, under the elapsed-time policy of
\* MockBakongService.check_payment only.
C8_FreshChecksPending ==
    [][(/\ impl = "MockBakongService"
        /\ CheckStep
        /\ resp'.key \in DOMAIN Ledger
        /\ IsPending(Ledger[resp'.key])
        /\ Ledger[resp'.key].created_at = now)
          => CheckStatus(resp') = "PENDING"]_vars

\* C8 witness: the second of two consecutive check_payment calls on a record
\* created in the current second has returned PENDING.
C8_Witness ==
    /\ impl = "MockBakongService"
    /\ resp.op = "check"
    /\ resp.seq = 2
    /\ resp.key \in DOMAIN transactions
    /\ transactions[resp.key].created_at = now
    /\ resp.ret = "PENDING"

C10_ForcePaidIdempotent ==
    [][(/\ impl = "MockPaymentService"
        /\ ForceStep
        /\ resp'.key \in DOMAIN payments)
          => /\ resp'.ret.success
             /\ IsPaid(payments'[resp'.key])
             /\ IsPaid(payments[resp'.key]) => payments' = payments]_vars

\* the step is a get_info call
GetInfoStep == resp'.op = "get_info" /\ (resp' /= resp \/ Ledger' /= Ledger)

\* C11: force_paid on an identifier the ledger does not hold reports a
\* failure and leaves the ledger as it was.
C11_UnknownForcePaidFails ==
    [][(/\ impl = "MockPaymentService"
        /\ ForceStep
        /\ resp'.key \notin DOMAIN payments)
          => (~resp'.ret.success /\ payments' = payments)]_vars

\* C12: every stored record holds a paid_at exactly when its status is PAID.
C12_PaidAtIffPaid ==
    \A id \in DOMAIN Ledger :
        ("paid_at" \in DOMAIN Ledger[id]) <=> IsPaid(Ledger[id])

\* C13: no status check and no force_paid changes a paid_at that a stored
\* record already holds.
C13_PaidAtWrittenOnce ==
    [][(CheckStep \/ ForceStep)
          => \A id \in DOMAIN Ledger :
                "paid_at" \in DOMAIN Ledger[id]
                   => /\ id \in DOMAIN Ledger'
                      /\ "paid_at" \in DOMAIN Ledger'[id]
                      /\ Ledger'[id].paid_at = Ledger[id].paid_at]_vars

\* C14: of the status checks that reach a record after the threshold, in
\* whatever order they are served, each returns PAID, and a check that finds
\* the record already PAID writes nothing to it (one transition, not one per
\* caller).
C14_RacingChecksOneTransition ==
    [][(/\ impl \in {"MockPaymentService", "MockBakongService"}
        /\ CheckStep
        /\ resp'.key \in DOMAIN Ledger)
          => /\ (impl = "MockBakongService"
                    /\ now - Ledger[resp'.key].created_at > 30)
                   => CheckStatus(resp') = "PAID"
             /\ IsPaid(Ledger[resp'.key])
                   => Ledger'[resp'.key] = Ledger[resp'.key]]_vars

\* C15: get_payment_info leaves the status of every stored record as it was.
C15_GetInfoReadOnly ==
    [][(impl = "MockBakongService" /\ GetInfoStep)
          => \A id \in DOMAIN transactions :
                transactions'[id].status = transactions[id].status]_vars

\* C16: a create call whose identifier is already a key of the ledger fails
\* with DuplicateIdentifier and leaves the ledger as it was.
C16_CreateNeverOverwrites ==
    [][(CreateStep /\ resp'.key \in DOMAIN Ledger)
          => /\ ~resp'.ret.success
             /\ resp'.ret.error = "DuplicateIdentifier"
             /\ Ledger' = Ledger]_vars

\* C17: every stored record stays stored, and each of its fields other than
\* status and paid_at keeps its value, over every operation.
C17_RecordFrame ==
    [][\A id \in DOMAIN Ledger :
          /\ id \in DOMAIN Ledger'
          /\ \A f \in (DOMAIN Ledger[id]) \ {"status", "paid_at"} :
                /\ f \in DOMAIN Ledger'[id]
                /\ Ledger'[id][f] = Ledger[id][f]]_vars

\* C19: a display-payload call for an identifier the ledger does not hold
\* returns no URL.
C19_UnknownDisplayPayloadFails ==
    (resp.op = "display" /\ resp.key \notin DOMAIN Ledger)
        => "url" \notin DOMAIN resp.ret

\* C18: under the probabilistic policy with a fair flip, a stored PENDING
\* record leads to a check that returns PAID, and every check of that
\* identifier after a check that returned PAID returns PAID.
C18_ProbabilisticLiveness ==
    /\ \A o \in OrderIds :
          (/\ impl = "MockPaymentService"
           /\ o \in DOMAIN payments
           /\ IsPending(payments[o]))
             ~> (resp.op = "check" /\ resp.key = o /\ CheckStatus(resp) = "PAID")
    /\ [][(/\ impl = "MockPaymentService"
           /\ CheckStep
           /\ resp'.key \in seen_paid)
             => CheckStatus(resp') = "PAID"]_vars

\* the status values of the contract
StatusValues == {"PENDING", "PAID", "NOT_FOUND"}

\* C20 as stated: every check_status response carries one of PENDING, PAID,
\* NOT_FOUND (UNPAID read as PENDING, a not-found failure as NOT_FOUND).
C20_StatusInClosedSet_Original ==
    resp.op = "check" => CheckStatus(resp) \in StatusValues

\* C20, amended: MockBakongService.check_payment returns PENDING, PAID or
\* NOT_FOUND; the two order-keyed services return status UNPAID or PAID when
\* they succeed, and when they fail return an error and no status at all:
\* the not-found message, or for BakongService the upstream client's error.
C20_StatusInClosedSet ==
    resp.op = "check" =>
        IF impl = "MockBakongService"
          THEN resp.ret \in StatusValues
        ELSE IF resp.ret.success
          THEN resp.ret.status \in {"UNPAID", "PAID"}
        ELSE /\ "status" \notin DOMAIN resp.ret
             /\ \/ CheckStatus(resp) = "NOT_FOUND"
                \/ impl = "BakongService" /\ resp.ret.error \in KhqrRaises

\* a BakongService check whose upstream get_payment call raised
C20_Witness ==
    /\ impl = "BakongService"
    /\ resp.op = "check"
    /\ ~resp.ret.success
    /\ resp.ret.error = "get_payment"

\* C21: a status check by order reference reports the payment identifier,
\* amount and status of the record the most recent create call for that
\* reference stored.  Stated as the three steps of the induction: a create
\* stores its own record under the reference, no other call changes a stored
\* record's identifier or amount, and a check reports the stored record.
C21_LastQrAuthoritative ==
    /\ [][(impl = "MockPaymentService" /\ CreateStep)
            => LET o == resp'.key
               IN  /\ o \in DOMAIN payments'
                   /\ payments'[o].payment_id = <<"uuid", creates'>>
                   /\ \A k \in DOMAIN payments :
                         payments[k].payment_id /= payments'[o].payment_id
                   /\ payments'[o].amount = resp'.amount
                   /\ payments'[o].status = "UNPAID"
                   /\ resp'.ret.qr_data = <<"mock_qr_data_", payments'[o].payment_id>>]_vars
    /\ [][(impl = "MockPaymentService" /\ ~CreateStep)
            => \A o \in DOMAIN payments :
                  /\ o \in DOMAIN payments'
                  /\ payments'[o].payment_id = payments[o].payment_id
                  /\ payments'[o].amount = payments[o].amount]_vars
    /\ [][(impl = "MockPaymentService" /\ CheckStep /\ resp'.key \in DOMAIN payments')
            => LET payment == payments'[resp'.key]
               IN  /\ resp'.ret.success
                   /\ resp'.ret.status = payment.status
                   /\ resp'.ret.payment_info.payment_id = payment.payment_id
                   /\ resp'.ret.payment_info.amount = payment.amount]_vars
    /\ [][(impl = "BakongService" /\ CreateStep /\ resp'.ret.success)
            => LET o == resp'.key
               IN  /\ o \in DOMAIN bk_transactions'
                   /\ bk_transactions'[o].md5 = resp'.ret.md5
                   /\ bk_transactions'[o].amount = resp'.amount
                   /\ bk_transactions'[o].status = "PENDING"]_vars
    /\ [][(impl = "BakongService" /\ ~CreateStep)
            => \A o \in DOMAIN bk_transactions :
                  /\ o \in DOMAIN bk_transactions'
                  /\ bk_transactions'[o].md5 = bk_transactions[o].md5
                  /\ bk_transactions'[o].amount = bk_transactions[o].amount]_vars
    /\ [][(/\ impl = "BakongService"
           /\ CheckStep
           /\ resp'.key \in DOMAIN bk_transactions'
           /\ resp'.ret.success)
            => LET transaction == bk_transactions'[resp'.key]
               IN  /\ resp'.ret.status = BK_NetworkStatus(transaction.md5)
                   /\ resp'.ret.status = "PAID"
                         => /\ transaction.status = "PAID"
                            /\ resp'.ret.payment_info
                                  = <<"payment_info", transaction.md5>>]_vars

\* C21 witness: order o1 had a payment of 10 created and then one of 0, and
\* the status check of o1 reports the second payment.
C21_Witness ==
    /\ impl = "MockPaymentService"
    /\ creates = 2
    /\ DOMAIN payments = {"o1"}
    /\ resp.op = "check"
    /\ resp.key = "o1"
    /\ resp.ret.payment_info.payment_id = <<"uuid", 2>>
    /\ resp.ret.payment_info.amount = 0

\* C22: every stored record has amount > 0 and a non-empty currency.
C22_StoredAmountPositive ==
    \A id \in DOMAIN Ledger :
        Ledger[id].amount > 0 /\ Ledger[id].currency /= ""

\* C23: in MockBakongService a stored status goes from pending to paid only
\* in a check_payment or get_payment_info call of that md5 made more than
\* 30 s after created_at; a check_payment of a pending record made within
\* 30 s of created_at leaves the ledger as it is and returns PENDING.
C23_PaidOnlyPastThreshold ==
    /\ [][impl = "MockBakongService"
            => \A md5 \in DOMAIN transactions :
                  (/\ transactions[md5].status = "pending"
                   /\ md5 \in DOMAIN transactions'
                   /\ transactions'[md5].status /= "pending")
                     => /\ transactions'[md5].status = "paid"
                        /\ resp'.op \in {"check", "get_info"}
                        /\ resp'.key = md5
                        /\ now - transactions[md5].created_at > 30]_vars
    /\ [][(/\ impl = "MockBakongService"
           /\ CheckStep
           /\ resp'.key \in DOMAIN transactions
           /\ transactions[resp'.key].status = "pending"
           /\ now - transactions[resp'.key].created_at <= 30)
            => /\ transactions' = transactions
               /\ resp'.ret = "PENDING"]_vars

\* C23 witness: a second check_payment in a row, made exactly 30 s after
\* created_at with the random draw in favour, returned PENDING.
C23_Witness ==
    /\ impl = "MockBakongService"
    /\ resp.op = "check"
    /\ resp.seq = 2
    /\ resp.draw
    /\ resp.key \in DOMAIN transactions
    /\ now - transactions[resp.key].created_at = 30
    /\ resp.ret = "PENDING"

----------------------------------------------------------------------------
(* The routers' claims *)

\* the step is a request to the named handler
HttpStep(op) == http'.op = op /\ (http' /= http \/ orders' /= orders \/ cart_items' /= cart_items)

\* C24: when the payment service returns a result with success = false,
\* the create-qr, check-payment and payment-info endpoints respond with
\* status 400 carrying the service's error text.
C24_ServiceFailureIs400 ==
    (/\ http.op \in {"create-qr", "check-payment", "payment-info"}
     /\ "result" \in DOMAIN http.outcome
     /\ "success" \in DOMAIN http.outcome.result
     /\ ~http.outcome.result.success)
        => (http.code = 400 /\ http.detail = http.outcome.result.error)

\* C25: the carrier webhook answers a payload without tracking_number or
\* without status with 400 "Missing required fields" and changes no order.
C25_WebhookMissingFields ==
    [][(/\ HttpStep("carrier_webhook")
        /\ \/ http'.data.tracking_number = None
           \/ http'.data.status = None)
          => /\ http'.code = 400
             /\ http'.detail = "Missing required fields"
             /\ orders' = orders]_vars

\* C26: no cancel_order call and no carrier-webhook call changes the
\* status of an order that is cancelled.
C26_CancelledIsTerminal ==
    [][(HttpStep("cancel_order") \/ HttpStep("carrier_webhook"))
          => \A o \in DOMAIN orders :
                orders[o].status = "cancelled" => orders'[o].status = "cancelled"]_vars

\* C27: a tracking number is assigned at most once: a stored tracking
\* number never changes, only a successful generate_tracking of the order
\* writes one, and generate_tracking by an admin on an order that has one
\* fails with 400 and changes no order.
C27_TrackingAssignedOnce ==
    /\ [][\A o \in DOMAIN orders :
            /\ o \in DOMAIN orders'
            /\ orders[o].tracking_number /= None
                  => orders'[o].tracking_number = orders[o].tracking_number
            /\ orders'[o].tracking_number /= orders[o].tracking_number
                  => /\ http'.op = "generate_tracking"
                     /\ http'.order_id = o
                     /\ http'.code = 200]_vars
    /\ [][\A o \in DOMAIN orders' \ DOMAIN orders :
            orders'[o].tracking_number = None]_vars
    /\ [][(/\ HttpStep("generate_tracking")
           /\ is_admin(http'.current_user)
           /\ http'.order_id \in DOMAIN orders
           /\ orders[http'.order_id].tracking_number /= None)
            => /\ http'.code = 400
               /\ orders' = orders]_vars

\* C27 witness: an order that was given a tracking number and has since been
\* delivered was asked for another one, and the request was refused.
C27_Witness ==
    /\ http.op = "generate_tracking"
    /\ http.code = 400
    /\ http.order_id \in DOMAIN orders
    /\ orders[http.order_id].tracking_number = "FED000000000001"
    /\ orders[http.order_id].status = "delivered"

\* C28: a cart item's quantity is at most the stock of its product.
C28_CartWithinStock ==
    \A i \in DOMAIN cart_items :
        cart_items[i].quantity <= products[cart_items[i].product_id].stock

====
